---- MODULE Spec2Model ----
(***************************************************************************)
(* The allocation bridge of bmalloc (src/src/lib.rs): gc_malloc,           *)
(* gc_realloc, gc_free and the two facades of GcAllocator (GlobalAlloc and *)
(* Allocator), run by several execution contexts against a collector that  *)
(* honours the interface contracts of its primitives.                      *)
(***************************************************************************)
EXTENDS Integers, Sequences, FiniteSets, TLC

(* ---------------- program constants ---------------- *)
MIN_ALIGN == 8
PTR_SIZE == 8
NULL == 0
Uninit == -1

(* ---------------- bounds of the model ---------------- *)
\* blocks the heap has room for, beyond one per other execution context
MaxLive == 2
\* one context with many layouts (Spec); two contexts with few (ConcSpec)
Addrs == {6, 8, 16, 24, 32}
Contexts == {1}
Sizes == {0, 2, 8, 16}
Aligns == {2, 4, 8, 16}
ConcContexts == {1, 2}
ConcSizes == {8}
ConcAligns == {4, 16}
ConcAddrs == {0, 8, 16, 24, 32}
Patterns == {1}
StatusCodes == {12, 22}

Min(a, b) == IF a <= b THEN a ELSE b
Max(a, b) == IF a >= b THEN a ELSE b
IsPow2(n) == n \in {1, 2, 4, 8, 16, 32, 64}

Layout(size, align) == [size |-> size, align |-> align]
Call(fn, ptr, align, nbytes) == [fn |-> fn, ptr |-> ptr, align |-> align, nbytes |-> nbytes]
NoBlock == [ptr |-> NULL, layout |-> Layout(0, 1)]
Raw(p) == [tag |-> "Raw", ptr |-> p, len |-> 0]
Ok(p, n) == [tag |-> "Ok", ptr |-> p, len |-> n]
Err == [tag |-> "Err", ptr |-> NULL, len |-> 0]
NoRes == [tag |-> "None", ptr |-> NULL, len |-> 0]
NoPrim == [ret |-> 0, out |-> NULL]

(* ---------------- the collector (interface contracts) ---------------- *)
Fresh(n) == [i \in 1..n |-> Uninit]
Put(h, a, blk) == [x \in (DOMAIN h) \cup {a} |-> IF x = a THEN blk ELSE h[x]]
Drop(h, a) == [x \in (DOMAIN h) \ {a} |-> h[x]]
Fits(h, a, n) ==
    /\ a \in Addrs
    /\ a \notin DOMAIN h
    /\ \A b \in DOMAIN h : a + n <= b \/ b + h[b].size <= a

\* the alignment the plain primitives guarantee for a block of nbytes
DefaultAlign(nbytes) ==
    IF nbytes >= MIN_ALIGN THEN MIN_ALIGN
    ELSE IF nbytes >= 4 THEN 4
    ELSE IF nbytes >= 2 THEN 2
    ELSE 1

Resized(old, n) == [i \in 1..n |-> IF i <= Len(old) THEN old[i] ELSE Uninit]

\* may the collector answer `call` with address a (NULL: exhaustion)?
\* n: the number of execution contexts; the heap has room for MaxLive blocks
\* beyond the one block each other context may hold
CollectorOk(h, n, call, a) ==
    \/ a = NULL
    \/ /\ call.fn = "GC_malloc"
       /\ Cardinality(DOMAIN h) < MaxLive + n - 1
       /\ Fits(h, a, call.nbytes)
       /\ a % DefaultAlign(call.nbytes) = 0
    \/ /\ call.fn = "GC_posix_memalign"
       /\ IsPow2(call.align) /\ call.align % PTR_SIZE = 0
       /\ Cardinality(DOMAIN h) < MaxLive + n - 1
       /\ Fits(h, a, call.nbytes)
       /\ a % call.align = 0
    \/ /\ call.fn = "GC_realloc"
       /\ call.ptr \in DOMAIN h
       /\ \/ a = call.ptr /\ Fits(Drop(h, call.ptr), a, call.nbytes)
          \/ /\ Cardinality(DOMAIN h) < MaxLive + n - 1
             /\ Fits(h, a, call.nbytes)
             /\ a % DefaultAlign(call.nbytes) = 0

CollectorHeap(h, call, a) ==
    IF a = NULL THEN h
    ELSE IF call.fn = "GC_realloc"
    THEN Put(Drop(h, call.ptr), a,
             [size |-> call.nbytes, bytes |-> Resized(h[call.ptr].bytes, call.nbytes)])
    ELSE Put(h, a, [size |-> call.nbytes, bytes |-> Fresh(call.nbytes)])

\* what the primitive hands back: its return value and its out parameter
CollectorRet(call, a, st) ==
    IF call.fn = "GC_posix_memalign"
    THEN [ret |-> IF a = NULL THEN st ELSE 0, out |-> a]
    ELSE [ret |-> a, out |-> NULL]

GC_free(h, dead) == IF dead \in DOMAIN h THEN Drop(h, dead) ELSE h

(* ---------------- the bridge ---------------- *)
\* Each definition of the bridge is preceded by its variants with a seeded
\* fault (suffix after the source name); the properties below fail on them.
gc_malloc_call_no_size_test(layout) ==
    IF layout.align <= MIN_ALIGN
    THEN Call("GC_malloc", NULL, 0, layout.size)
    ELSE Call("GC_posix_memalign", NULL, Max(layout.align, PTR_SIZE), layout.size)

gc_malloc_call_no_max(layout) ==
    IF layout.align <= MIN_ALIGN /\ layout.align <= layout.size
    THEN Call("GC_malloc", NULL, 0, layout.size)
    ELSE Call("GC_posix_memalign", NULL, layout.align, layout.size)

gc_malloc_call(layout) ==
    IF layout.align <= MIN_ALIGN /\ layout.align <= layout.size
    THEN Call("GC_malloc", NULL, 0, layout.size)
    ELSE Call("GC_posix_memalign", NULL, Max(layout.align, PTR_SIZE), layout.size)

gc_malloc_result_raw_status(call, prim) ==
    IF call.fn = "GC_malloc" THEN prim.ret
    ELSE IF prim.ret # 0 THEN prim.ret ELSE prim.out

gc_malloc_result(call, prim) ==
    IF call.fn = "GC_malloc" THEN prim.ret
    ELSE IF prim.ret # 0 THEN NULL ELSE prim.out

gc_malloc(h, layout, a, st) ==
    LET call == gc_malloc_call(layout)
        prim == CollectorRet(call, a, st)
    IN  [heap |-> CollectorHeap(h, call, a), ptr |-> gc_malloc_result(call, prim),
         prim |-> prim, calls |-> <<call>>]

gc_realloc_fast_no_size_test(old_layout, new_size) ==
    old_layout.align <= MIN_ALIGN

gc_realloc_fast_no_min_align(old_layout, new_size) ==
    old_layout.align <= new_size

gc_realloc_fast(old_layout, new_size) ==
    old_layout.align <= MIN_ALIGN /\ old_layout.align <= new_size

gc_realloc_copy_size_short(old_layout, new_size) ==
    Max(Min(old_layout.size, new_size) - 1, 0)

gc_realloc_copy_size(old_layout, new_size) == Min(old_layout.size, new_size)

gc_realloc_relocates_always(new_ptr) == TRUE

gc_realloc_relocates(new_ptr) == new_ptr # NULL

gc_realloc_result_old(ptr, new_ptr) == ptr

gc_realloc_result(ptr, new_ptr) == new_ptr

copy_nonoverlapping(h, src, dst, count) ==
    IF src \in DOMAIN h /\ dst \in DOMAIN h
    THEN [h EXCEPT ![dst].bytes =
            [i \in 1..Len(h[dst].bytes) |->
                IF i <= count /\ i <= Len(h[src].bytes) THEN h[src].bytes[i]
                ELSE h[dst].bytes[i]]]
    ELSE h

gc_free(h, ptr) ==
    [heap |-> GC_free(h, ptr), calls |-> <<Call("GC_free", ptr, 0, 0)>>,
     bad |-> ptr \notin DOMAIN h]

(* ---------------- the facades ---------------- *)
alloc(h, layout, a, st) ==
    LET m == gc_malloc(h, layout, a, st)
    IN  [heap |-> m.heap, ptr |-> m.ptr, res |-> Raw(m.ptr), prim |-> m.prim,
         calls |-> m.calls, bad |-> FALSE]

dealloc_forwards(h, ptr, layout) ==
    [heap |-> gc_free(h, ptr).heap, calls |-> gc_free(h, ptr).calls, bad |-> gc_free(h, ptr).bad]

dealloc(h, ptr, layout) ==
    [heap |-> h, calls |-> <<>>, bad |-> FALSE]

deallocate(h, ptr, layout) ==
    [heap |-> h, calls |-> <<>>, bad |-> FALSE]

allocate_no_zero_arm(h, layout, a, st) ==
    LET m == gc_malloc(h, layout, a, st)
    IN  [heap |-> m.heap, ptr |-> m.ptr,
         res |-> IF m.ptr = NULL THEN Err ELSE Ok(m.ptr, layout.size),
         prim |-> m.prim, calls |-> m.calls, bad |-> FALSE]

allocate(h, layout, a, st) ==
    IF layout.size = 0
    THEN [heap |-> h, ptr |-> NULL, res |-> Ok(layout.align, 0), prim |-> NoPrim,
          calls |-> <<>>, bad |-> FALSE]
    ELSE LET m == gc_malloc(h, layout, a, st)
         IN  [heap |-> m.heap, ptr |-> m.ptr,
              res |-> IF m.ptr = NULL THEN Err ELSE Ok(m.ptr, layout.size),
              prim |-> m.prim, calls |-> m.calls, bad |-> FALSE]

(* ---------------- state ---------------- *)
VARIABLES heap, ctx, badFree
vars == <<heap, ctx, badFree>>

NoReq == [op |-> "none", ptr |-> NULL, layout |-> Layout(0, 1), new_size |-> 0,
          old_bytes |-> <<>>]
Req(op, ptr, layout, new_size, old_bytes) ==
    [op |-> op, ptr |-> ptr, layout |-> layout, new_size |-> new_size,
     old_bytes |-> old_bytes]

IdleCtx == [pc |-> "idle", held |-> NoBlock, shadow |-> <<>>, req |-> NoReq,
            res |-> NoRes, prim |-> NoPrim, calls |-> <<>>, new_ptr |-> NULL]

Init ==
    /\ heap = <<>>
    /\ ctx = [c \in Contexts |-> IdleCtx]
    /\ badFree = FALSE

Pattern(p, n) == [i \in 1..n |-> (p * 16 + i) % 256]

Referenced(a) ==
    \E c \in DOMAIN ctx : ctx[c].held.ptr = a \/ (ctx[c].pc # "idle" /\ ctx[c].new_ptr = a)

\* the choice the collector makes for a request that reaches gc_malloc
Choice(call, a, st) ==
    /\ CollectorOk(heap, Cardinality(DOMAIN ctx), call, a)
    /\ (call.fn = "GC_posix_memalign" /\ a = NULL) \/ st = 12

Alloc(c, size, align, a, st) ==
    /\ ctx[c].pc = "idle"
    /\ ctx[c].held = NoBlock
    /\ Choice(gc_malloc_call(Layout(size, align)), a, st)
    /\ LET layout == Layout(size, align)
           r == alloc(heap, layout, a, st)
       IN  /\ heap' = r.heap
           /\ ctx' = [ctx EXCEPT ![c] =
                  [pc |-> "ret",
                   held |-> IF r.ptr # NULL THEN [ptr |-> r.ptr, layout |-> layout] ELSE NoBlock,
                   shadow |-> IF r.ptr # NULL THEN Fresh(size) ELSE <<>>,
                   req |-> Req("alloc", NULL, layout, 0, <<>>),
                   res |-> r.res, prim |-> r.prim, calls |-> r.calls, new_ptr |-> NULL]]
           /\ badFree' = badFree

Allocate(c, size, align, a, st) ==
    /\ ctx[c].pc = "idle"
    /\ ctx[c].held = NoBlock
    /\ IF size = 0 THEN a = NULL /\ st = 12
       ELSE Choice(gc_malloc_call(Layout(size, align)), a, st)
    /\ LET layout == Layout(size, align)
           r == allocate(heap, layout, a, st)
       IN  /\ heap' = r.heap
           /\ ctx' = [ctx EXCEPT ![c] =
                  [pc |-> "ret",
                   held |-> IF r.ptr # NULL THEN [ptr |-> r.ptr, layout |-> layout] ELSE NoBlock,
                   shadow |-> IF r.ptr # NULL THEN Fresh(size) ELSE <<>>,
                   req |-> Req("allocate", NULL, layout, 0, <<>>),
                   res |-> r.res, prim |-> r.prim, calls |-> r.calls, new_ptr |-> NULL]]
           /\ badFree' = badFree

Dealloc(c, p) ==
    /\ ctx[c].pc = "idle"
    /\ LET layout == IF p = ctx[c].held.ptr THEN ctx[c].held.layout ELSE NoBlock.layout
           r == dealloc(heap, p, layout)
       IN  /\ heap' = r.heap
           /\ badFree' = (badFree \/ r.bad)
           /\ ctx' = [ctx EXCEPT ![c] =
                  [pc |-> "ret",
                   held |-> IF p = ctx[c].held.ptr THEN NoBlock ELSE ctx[c].held,
                   shadow |-> IF p = ctx[c].held.ptr THEN <<>> ELSE ctx[c].shadow,
                   req |-> Req("dealloc", p, NoBlock.layout, 0, <<>>),
                   res |-> NoRes, prim |-> NoPrim, calls |-> r.calls, new_ptr |-> NULL]]

Deallocate(c, p) ==
    /\ ctx[c].pc = "idle"
    /\ LET layout == IF p = ctx[c].held.ptr THEN ctx[c].held.layout ELSE NoBlock.layout
           r == deallocate(heap, p, layout)
       IN  /\ heap' = r.heap
           /\ badFree' = (badFree \/ r.bad)
           /\ ctx' = [ctx EXCEPT ![c] =
                  [pc |-> "ret",
                   held |-> IF p = ctx[c].held.ptr THEN NoBlock ELSE ctx[c].held,
                   shadow |-> IF p = ctx[c].held.ptr THEN <<>> ELSE ctx[c].shadow,
                   req |-> Req("deallocate", p, NoBlock.layout, 0, <<>>),
                   res |-> NoRes, prim |-> NoPrim, calls |-> r.calls, new_ptr |-> NULL]]

\* GlobalAlloc::realloc -> gc_realloc, up to and including its first collector call
Realloc(c, new_size, a, st) ==
    /\ ctx[c].pc = "idle"
    /\ ctx[c].held # NoBlock
    /\ LET ptr == ctx[c].held.ptr
           old_layout == ctx[c].held.layout
           old_bytes == IF ptr \in DOMAIN heap THEN heap[ptr].bytes ELSE <<>>
           req == Req("realloc", ptr, old_layout, new_size, old_bytes)
       IN  IF gc_realloc_fast(old_layout, new_size)
           THEN LET call == Call("GC_realloc", ptr, 0, new_size)
                    prim == CollectorRet(call, a, st)
                IN  /\ Choice(call, a, st)
                    /\ heap' = CollectorHeap(heap, call, a)
                    /\ badFree' = badFree
                    /\ ctx' = [ctx EXCEPT ![c] =
                           [pc |-> "ret",
                            held |-> IF prim.ret # NULL
                                     THEN [ptr |-> prim.ret, layout |-> Layout(new_size, old_layout.align)]
                                     ELSE ctx[c].held,
                            shadow |-> IF prim.ret # NULL THEN Resized(ctx[c].shadow, new_size)
                                       ELSE ctx[c].shadow,
                            req |-> req, res |-> Raw(prim.ret), prim |-> prim,
                            calls |-> <<call>>, new_ptr |-> NULL]]
           ELSE LET new_layout == Layout(new_size, old_layout.align)
                    m == gc_malloc(heap, new_layout, a, st)
                IN  /\ Choice(gc_malloc_call(new_layout), a, st)
                    /\ heap' = m.heap
                    /\ badFree' = badFree
                    /\ ctx' = [ctx EXCEPT ![c] =
                           [pc |-> IF gc_realloc_relocates(m.ptr) THEN "copy" ELSE "ret",
                            held |-> ctx[c].held, shadow |-> ctx[c].shadow,
                            req |-> req,
                            res |-> IF gc_realloc_relocates(m.ptr) THEN NoRes ELSE Raw(m.ptr),
                            prim |-> m.prim, calls |-> m.calls, new_ptr |-> m.ptr]]

\* gc_realloc, copy-relocate path: ptr::copy_nonoverlapping(ptr, new_ptr, size)
ReallocCopy(c) ==
    /\ ctx[c].pc = "copy"
    /\ LET size == gc_realloc_copy_size(ctx[c].req.layout, ctx[c].req.new_size)
       IN  /\ heap' = copy_nonoverlapping(heap, ctx[c].req.ptr, ctx[c].new_ptr, size)
           /\ ctx' = [ctx EXCEPT ![c].pc = "free",
                                 ![c].calls = Append(@, Call("copy_nonoverlapping", ctx[c].new_ptr, 0, size))]
           /\ badFree' = badFree

\* gc_realloc, copy-relocate path: gc_free(ptr, old_layout); new_ptr
ReallocFree(c) ==
    /\ ctx[c].pc = "free"
    /\ LET f == gc_free(heap, ctx[c].req.ptr)
           result == gc_realloc_result(ctx[c].req.ptr, ctx[c].new_ptr)
           new_size == ctx[c].req.new_size
       IN  /\ heap' = f.heap
           /\ badFree' = (badFree \/ f.bad)
           /\ ctx' = [ctx EXCEPT ![c] =
                  [pc |-> "ret",
                   held |-> IF result # NULL
                            THEN [ptr |-> result, layout |-> Layout(new_size, ctx[c].req.layout.align)]
                            ELSE ctx[c].held,
                   shadow |-> IF result # NULL THEN Resized(ctx[c].shadow, new_size)
                              ELSE ctx[c].shadow,
                   req |-> ctx[c].req, res |-> Raw(result), prim |-> ctx[c].prim,
                   calls |-> ctx[c].calls \o f.calls, new_ptr |-> NULL]]

\* the host writes a known byte pattern into the block it holds
Write(c, p) ==
    /\ ctx[c].pc = "idle"
    /\ ctx[c].held # NoBlock
    /\ ctx[c].held.ptr \in DOMAIN heap
    /\ LET ptr == ctx[c].held.ptr
           bytes == Pattern(p, heap[ptr].size)
       IN  /\ heap[ptr].size > 0
           /\ heap[ptr].bytes # bytes
           /\ heap' = [heap EXCEPT ![ptr].bytes = bytes]
           /\ ctx' = [ctx EXCEPT ![c].shadow = bytes]
           /\ badFree' = badFree

\* the request returns to the host, which takes the result
Return(c) ==
    /\ ctx[c].pc = "ret"
    /\ ctx' = [ctx EXCEPT ![c] = [IdleCtx EXCEPT !.held = ctx[c].held,
                                                 !.shadow = ctx[c].shadow]]
    /\ UNCHANGED <<heap, badFree>>

\* the collector reclaims a block no context references
Collect(a) ==
    /\ a \in DOMAIN heap
    /\ ~Referenced(a)
    /\ heap' = Drop(heap, a)
    /\ UNCHANGED <<ctx, badFree>>

AddrChoices == {0, 6, 8, 16, 32}

Next ==
    \/ \E c \in Contexts, s \in Sizes, al \in Aligns, a \in AddrChoices, st \in StatusCodes :
          Alloc(c, s, al, a, st)
    \/ \E c \in Contexts, s \in Sizes, al \in Aligns, a \in AddrChoices, st \in StatusCodes :
          Allocate(c, s, al, a, st)
    \/ \E c \in Contexts, p \in AddrChoices \ {NULL} : Dealloc(c, p)
    \/ \E c \in Contexts, p \in AddrChoices \ {NULL} : Deallocate(c, p)
    \/ \E c \in Contexts, s \in Sizes, a \in AddrChoices, st \in StatusCodes :
          Realloc(c, s, a, st)
    \/ \E c \in Contexts : ReallocCopy(c)
    \/ \E c \in Contexts : ReallocFree(c)
    \/ \E c \in Contexts : Return(c)
    \/ \E c \in Contexts, p \in Patterns : Write(c, p)
    \/ \E a \in Addrs : Collect(a)

Spec == Init /\ [][Next]_vars

\* several execution contexts sharing the collector
ConcInit ==
    /\ heap = <<>>
    /\ ctx = [c \in ConcContexts |-> IdleCtx]
    /\ badFree = FALSE

ConcNext ==
    \/ \E c \in ConcContexts, s \in ConcSizes, al \in ConcAligns, a \in ConcAddrs, st \in {12} :
          Alloc(c, s, al, a, st)
    \/ \E c \in ConcContexts, p \in ConcAddrs \ {NULL} : Dealloc(c, p)
    \/ \E c \in ConcContexts, s \in ConcSizes, a \in ConcAddrs, st \in {12} :
          Realloc(c, s, a, st)
    \/ \E c \in ConcContexts : ReallocCopy(c)
    \/ \E c \in ConcContexts : ReallocFree(c)
    \/ \E c \in ConcContexts : Return(c)
    \/ \E c \in ConcContexts, p \in Patterns : Write(c, p)
    \/ \E a \in Addrs : Collect(a)

ConcSpec == ConcInit /\ [][ConcNext]_vars

TypeOK ==
    /\ DOMAIN heap \subseteq Addrs
    /\ \A c \in DOMAIN ctx : ctx[c].pc \in {"idle", "copy", "free", "ret"}

(* ---------------- properties ---------------- *)
IsFree(x) == x.fn = "GC_free"
IsCopy(x) == x.fn = "copy_nonoverlapping"
\* the request of context c is an allocate of either facade and has returned
AllocDone(c) == ctx[c].pc = "ret" /\ ctx[c].req.op \in {"alloc", "allocate"}
\* the request of context c is a reallocate and has returned
ReallocDone(c) == ctx[c].pc = "ret" /\ ctx[c].req.op = "realloc"
\* the first collector primitive of c's request reported exhaustion
PrimFailed(c) ==
    /\ Len(ctx[c].calls) >= 1
    /\ \/ ctx[c].calls[1].fn \in {"GC_malloc", "GC_realloc"} /\ ctx[c].prim.ret = NULL
       \/ ctx[c].calls[1].fn = "GC_posix_memalign" /\ ctx[c].prim.ret # 0
Written(bytes) == Len(bytes) > 0 /\ \A i \in 1..Len(bytes) : bytes[i] # Uninit

\* C1: a successful allocate(size, align) with size > 0 returns a live block whose
\* address is a multiple of align and whose capacity is at least size.
C1_AllocAligned ==
    \A c \in DOMAIN ctx :
        (AllocDone(c) /\ ctx[c].req.layout.size > 0 /\ ctx[c].res.tag \in {"Raw", "Ok"}
            /\ ctx[c].res.ptr # NULL)
        => /\ ctx[c].res.ptr % ctx[c].req.layout.align = 0
           /\ ctx[c].res.ptr \in DOMAIN heap
           /\ heap[ctx[c].res.ptr].size >= ctx[c].req.layout.size

C1_Witness ==
    \E c \in DOMAIN ctx :
        /\ AllocDone(c) /\ ctx[c].req.layout = Layout(16, 16)
        /\ ctx[c].res.ptr = 32 /\ ctx[c].calls[1].fn = "GC_posix_memalign"

\* C2: after a successful reallocate, the first min(old_size, new_size) bytes of the
\* returned block are the bytes the old block held just before the call.
C2_ReallocKeepsBytes ==
    \A c \in DOMAIN ctx :
        (ReallocDone(c) /\ ctx[c].res.ptr # NULL)
        => /\ ctx[c].res.ptr \in DOMAIN heap
           /\ \A i \in 1..Min(ctx[c].req.layout.size, ctx[c].req.new_size) :
                 /\ i <= Len(heap[ctx[c].res.ptr].bytes)
                 /\ heap[ctx[c].res.ptr].bytes[i] = ctx[c].req.old_bytes[i]

C2_Witness ==
    \E c \in DOMAIN ctx :
        /\ ReallocDone(c) /\ ctx[c].res.ptr # NULL
        /\ Len(ctx[c].calls) = 3 /\ IsCopy(ctx[c].calls[2])
        /\ ctx[c].req.new_size > 0
        /\ Written(ctx[c].req.old_bytes)

\* C3: a reallocate whose collector primitive reports exhaustion returns the failure
\* signal; the caller still holds the original block, live, at the same address and
\* with the same contents; nothing was freed and nothing was copied.
C3_ReallocFailureKeepsBlock ==
    \A c \in DOMAIN ctx :
        (ReallocDone(c) /\ (PrimFailed(c) \/ ctx[c].res.ptr = NULL))
        => /\ ctx[c].res = Raw(NULL)
           /\ PrimFailed(c)
           /\ ctx[c].held.ptr = ctx[c].req.ptr
           /\ ctx[c].held.layout = ctx[c].req.layout
           /\ ctx[c].req.ptr \in DOMAIN heap
           /\ heap[ctx[c].req.ptr].bytes = ctx[c].req.old_bytes
           /\ \A i \in 1..Len(ctx[c].calls) :
                 ~IsFree(ctx[c].calls[i]) /\ ~IsCopy(ctx[c].calls[i])

C3_Witness ==
    \E c \in DOMAIN ctx :
        /\ ReallocDone(c) /\ ctx[c].res = Raw(NULL)
        /\ ctx[c].calls[1].fn = "GC_posix_memalign"
        /\ Written(ctx[c].req.old_bytes)

\* C4: a deallocate step of either facade makes no collector call and changes
\* neither the liveness nor the contents of any block.
DeallocStep(c) ==
    /\ ctx'[c] # ctx[c]
    /\ ctx'[c].req.op \in {"dealloc", "deallocate"}
C4_DeallocateIsNoOp ==
    [][\A c \in DOMAIN ctx :
          DeallocStep(c) => /\ heap' = heap
                            /\ badFree' = badFree
                            /\ ctx'[c].calls = <<>>]_vars

C4_Witness ==
    \E c \in DOMAIN ctx :
        /\ ctx[c].pc = "ret"
        /\ ctx[c].req.op = "deallocate"
        /\ ctx[c].held = NoBlock
        /\ ctx[c].req.ptr \in DOMAIN heap
        /\ Written(heap[ctx[c].req.ptr].bytes)

C6_OneCollectorCall ==
    \A c \in DOMAIN ctx :
        (AllocDone(c) /\ ctx[c].req.layout.size > 0)
        => LET size == ctx[c].req.layout.size
               align == ctx[c].req.layout.align
           IN  /\ Len(ctx[c].calls) = 1
               /\ IF align <= 8 /\ align <= size
                  THEN ctx[c].calls[1] = Call("GC_malloc", NULL, 0, size)
                  ELSE /\ ctx[c].calls[1].fn = "GC_posix_memalign"
                       /\ ctx[c].calls[1].nbytes = size
                       /\ ctx[c].calls[1].align = (IF align >= 8 THEN align ELSE 8)
                       /\ IsPow2(ctx[c].calls[1].align)
                       /\ ctx[c].calls[1].align % PTR_SIZE = 0

C6_Witness ==
    \E c \in DOMAIN ctx :
        /\ AllocDone(c) /\ ctx[c].req.op = "allocate"
        /\ ctx[c].req.layout = Layout(2, 4)
        /\ ctx[c].calls = <<Call("GC_posix_memalign", NULL, 8, 2)>>

\* C7: when the collector primitive of an allocate reports exhaustion, the default
\* facade returns null and the scoped handle returns AllocError; the raw status is
\* never returned and the scoped handle never returns Ok with a null pointer.
C7_AllocFailureSignal ==
    \A c \in DOMAIN ctx :
        /\ (AllocDone(c) /\ ctx[c].req.layout.size > 0 /\ PrimFailed(c))
           => /\ ctx[c].req.op = "alloc" => ctx[c].res = Raw(NULL)
              /\ ctx[c].req.op = "allocate" => ctx[c].res = Err
              /\ ctx[c].held = NoBlock
        /\ ctx[c].res.tag = "Ok" => ctx[c].res.ptr # NULL

C7_Witness ==
    \E c \in DOMAIN ctx :
        /\ AllocDone(c) /\ ctx[c].req.op = "allocate"
        /\ ctx[c].prim.ret = 22
        /\ ctx[c].res = Err

\* C8: in every interleaving, every block a context holds is live and holds the bytes
\* that context wrote, no two contexts hold the same block, and the free primitive is
\* never given a block that is not live.
C8_HeldBlocksSafe ==
    /\ ~badFree
    /\ \A c \in DOMAIN ctx :
          ctx[c].held # NoBlock
          => /\ ctx[c].held.ptr \in DOMAIN heap
             /\ heap[ctx[c].held.ptr].bytes = ctx[c].shadow
             /\ \A d \in DOMAIN ctx \ {c} :
                   /\ ctx[d].held.ptr # ctx[c].held.ptr
                   /\ ctx[d].pc # "idle" => ctx[d].new_ptr # ctx[c].held.ptr

C8_Witness ==
    \E c \in DOMAIN ctx, d \in DOMAIN ctx :
        /\ c # d
        /\ ctx[c].pc = "free"
        /\ Written(ctx[c].shadow)
        /\ ctx[d].pc = "idle"
        /\ ctx[d].held # NoBlock
        /\ Written(ctx[d].shadow)

\* C9: reallocate makes the single call plain-reallocate(ptr, new_size) exactly when
\* old_align <= MIN_ALIGN and old_align <= new_size; otherwise it never calls
\* plain-reallocate and makes, in order, the allocate call for (new_size, old_align),
\* a copy of min(old_size, new_size) bytes and one free of the old block, the copy
\* and the free only when the allocation succeeded. No other request frees.
C9_ReallocCallOrder ==
    \A c \in DOMAIN ctx :
        LET r == ctx[c]
            align == r.req.layout.align
            new_size == r.req.new_size
            m == IF align <= 8 /\ align <= new_size
                 THEN Call("GC_malloc", NULL, 0, new_size)
                 ELSE Call("GC_posix_memalign", NULL, IF align >= 8 THEN align ELSE 8, new_size)
            cp == Call("copy_nonoverlapping", r.new_ptr, 0,
                       IF r.req.layout.size <= new_size THEN r.req.layout.size ELSE new_size)
            fr == Call("GC_free", r.req.ptr, 0, 0)
        IN  /\ r.req.op # "realloc" => \A i \in 1..Len(r.calls) : ~IsFree(r.calls[i])
            /\ r.req.op # "realloc" => r.pc \in {"idle", "ret"}
            /\ r.req.op = "realloc"
               => IF align <= 8 /\ align <= new_size
                  THEN r.pc = "ret" /\ r.calls = <<Call("GC_realloc", r.req.ptr, 0, new_size)>>
                  ELSE \/ r.pc = "copy" /\ r.calls = <<m>> /\ r.new_ptr # NULL
                       \/ r.pc = "free" /\ r.calls = <<m, cp>> /\ r.new_ptr # NULL
                       \/ r.pc = "ret" /\ r.calls = <<m>> /\ r.res = Raw(NULL)
                       \/ /\ r.pc = "ret" /\ r.res.ptr # NULL
                          /\ Len(r.calls) = 3 /\ r.calls[1] = m /\ IsCopy(r.calls[2])
                          /\ r.calls[2].ptr = r.res.ptr
                          /\ r.calls[2].nbytes = cp.nbytes
                          /\ r.calls[3] = fr

C9_Witness ==
    \E c \in DOMAIN ctx :
        /\ ReallocDone(c)
        /\ ctx[c].req.layout.align = 8 /\ ctx[c].req.new_size = 2
        /\ Len(ctx[c].calls) = 3 /\ IsFree(ctx[c].calls[3])

\* C10: a successful reallocate with new_size > 0 returns a live block whose address
\* is a multiple of the old layout's alignment and whose capacity is at least new_size.
C10_ReallocAligned ==
    \A c \in DOMAIN ctx :
        (ReallocDone(c) /\ ctx[c].res.ptr # NULL /\ ctx[c].req.new_size > 0)
        => /\ ctx[c].res.ptr % ctx[c].req.layout.align = 0
           /\ ctx[c].res.ptr \in DOMAIN heap
           /\ heap[ctx[c].res.ptr].size >= ctx[c].req.new_size

C10_Witness ==
    \E c \in DOMAIN ctx :
        /\ ReallocDone(c) /\ ctx[c].res.ptr # NULL
        /\ ctx[c].req.layout.align = 8
        /\ ctx[c].calls[1].fn = "GC_realloc"
        /\ ctx[c].res.ptr # ctx[c].req.ptr
====
